---- MODULE Spec2Model ----
(***************************************************************************)
(* A model of terraform-mirror: the filename codec of the registry         *)
(* package, the file-backed hash cache, the registry translator and the    *)
(* download proxy of the server package.  Strings are sequences of         *)
(* one-character strings, so that splitting, joining and trimming are      *)
(* computed as the Go code computes them.                                  *)
(***************************************************************************)
EXTENDS Integers, Sequences, FiniteSets, TLC

VARIABLES codec, reqs, files, tmp, started, faults

vars == <<codec, reqs, files, tmp, started, faults>>

(***************************************************************************)
(* Bounds of the model.                                                    *)
(***************************************************************************)
\* longest package name drawn for the codec round trip
MaxNameLen == 2
\* longest body (between prefix and suffix) of a raw filename given to the codec
MaxBodyLen == 4
\* number of requests the server receives in one behaviour
MaxReq == 3
\* number of requests when the clients only download
MaxDownloads == 2
\* number of requests when the clients only ask for documents
MaxQueries == 2
\* number of calls of the hash cache when it is driven on its own
MaxStoreOps == 2
\* number of failures of the origin, the disk or the hash computation in one behaviour
MaxFaults == 1

(***************************************************************************)
(* strings: HasPrefix, HasSuffix, TrimPrefix, TrimSuffix, Split, Join,     *)
(* TrimSpace as the Go standard library defines them.                      *)
(***************************************************************************)
HasPrefix(s, p) == Len(s) >= Len(p) /\ SubSeq(s, 1, Len(p)) = p

HasSuffix(s, p) == Len(s) >= Len(p) /\ SubSeq(s, Len(s) - Len(p) + 1, Len(s)) = p

TrimPrefix(s, p) == IF HasPrefix(s, p) THEN SubSeq(s, Len(p) + 1, Len(s)) ELSE s

TrimSuffix(s, p) == IF HasSuffix(s, p) THEN SubSeq(s, 1, Len(s) - Len(p)) ELSE s

RECURSIVE Split(_, _)
Split(s, c) ==
    IF \A i \in 1..Len(s) : s[i] # c
    THEN <<s>>
    ELSE LET i == CHOOSE k \in 1..Len(s) :
                      s[k] = c /\ \A j \in 1..(k - 1) : s[j] # c
         IN  <<SubSeq(s, 1, i - 1)>> \o Split(SubSeq(s, i + 1, Len(s)), c)

RECURSIVE Join(_, _)
Join(parts, c) ==
    IF parts = <<>> THEN <<>>
    ELSE IF Len(parts) = 1 THEN parts[1]
    ELSE parts[1] \o <<c>> \o Join(Tail(parts), c)

\* unicode.IsSpace on the characters a TLA+ string can hold: tab, line feed,
\* vertical tab, form feed, carriage return, space, U+0085, U+00A0 and
\* U+1680 (the white space from U+2000 up is outside the alphabet of the
\* model)
IsSpace(c) == c \in {" ", "\n", "\t", "\r", "\f", "", "", " ", " "}

RECURSIVE TrimSpace(_)
TrimSpace(s) ==
    IF s = <<>> THEN s
    ELSE IF IsSpace(s[1]) THEN TrimSpace(Tail(s))
    ELSE IF IsSpace(s[Len(s)]) THEN TrimSpace(SubSeq(s, 1, Len(s) - 1))
    ELSE s

\* all strings over alphabet A of length at most n
RECURSIVE StringsUpTo(_, _)
StringsUpTo(A, n) ==
    IF n = 0 THEN {<<>>}
    ELSE LET shorter == StringsUpTo(A, n - 1)
         IN  shorter \cup {Append(s, c) : s \in shorter, c \in A}

(***************************************************************************)
(* The filename codec.                                                     *)
(***************************************************************************)
Prefix == <<"t","e","r","r","a","f","o","r","m","-","p","r","o","v","i","d","e","r","-">>

ZipSuffix == <<".","z","i","p">>

\* fmt.Sprintf("%s_%s", os, arch)
Platform(os, arch) == os \o <<"_">> \o arch

\* fmt.Sprintf("terraform-provider-%s_%s_%s_%s.zip", name, version, os, arch)
ZipFilename(name, version, os, arch) ==
    Prefix \o name \o <<"_">> \o version \o <<"_">> \o os \o <<"_">> \o arch \o ZipSuffix

ParseError(msg) ==
    [err |-> msg, name |-> <<>>, version |-> <<>>, os |-> <<>>, arch |-> <<>>]

\* the mutant of ParseZipFilename: the name is the first segment only
ParseZipFilenameLeft(filename) ==
    LET f1 == TrimSuffix(filename, ZipSuffix)
    IN  IF ~HasPrefix(f1, Prefix)
        THEN ParseError("invalid filename format")
        ELSE LET parts == Split(TrimPrefix(f1, Prefix), "_")
                 n == Len(parts)
             IN  IF n < 4
                 THEN ParseError("invalid filename format: not enough parts")
                 ELSE [err |-> "", name |-> parts[1], version |-> parts[2],
                       os |-> parts[3], arch |-> Join(SubSeq(parts, 4, n), "_")]

ParseZipFilename(filename) ==
    LET f1 == TrimSuffix(filename, ZipSuffix)
    IN  IF ~HasPrefix(f1, Prefix)
        THEN ParseError("invalid filename format")
        ELSE LET parts == Split(TrimPrefix(f1, Prefix), "_")
                 n == Len(parts)
             IN  IF n < 4
                 THEN ParseError("invalid filename format: not enough parts")
                 ELSE [err |-> "", name |-> Join(SubSeq(parts, 1, n - 3), "_"),
                       version |-> parts[n - 2], os |-> parts[n - 1],
                       arch |-> parts[n]]

(***************************************************************************)
(* The codec on its own: a filename is either built from an identity       *)
(* (name, version, os, arch) the way ProviderVersion builds archive urls,  *)
(* or arrives as raw text; ParseZipFilename is then applied to it.         *)
(***************************************************************************)
NameAlphabet == {"a", "_"}

TokenAlphabet == {"a", "."}

Identities ==
    [name : StringsUpTo(NameAlphabet, MaxNameLen),
     version : StringsUpTo(TokenAlphabet, 1),
     os : StringsUpTo(TokenAlphabet, 1),
     arch : StringsUpTo(TokenAlphabet, 1)]

NoIdentity == [name |-> <<"?">>, version |-> <<"?">>, os |-> <<"?">>, arch |-> <<"?">>]

RawHeads == {Prefix, <<>>, Tail(Prefix), SubSeq(Prefix, 1, Len(Prefix) - 1)}

RawTails == {ZipSuffix, <<>>, Tail(ZipSuffix), SubSeq(ZipSuffix, 1, Len(ZipSuffix) - 1)}

RawFilenames ==
    {h \o b \o t : h \in RawHeads, b \in StringsUpTo(NameAlphabet, MaxBodyLen), t \in RawTails}

CodecOff == [pc |-> "off", id |-> NoIdentity, file |-> <<>>, out |-> ParseError("")]

CodecEncode ==
    /\ codec.pc = "start"
    /\ \E id \in Identities :
          codec' = [codec EXCEPT !.pc = "named", !.id = id,
                                 !.file = ZipFilename(id.name, id.version, id.os, id.arch)]
    /\ UNCHANGED <<reqs, files, tmp, started, faults>>

CodecReceive ==
    /\ codec.pc = "start"
    /\ \E f \in RawFilenames : codec' = [codec EXCEPT !.pc = "named", !.file = f]
    /\ UNCHANGED <<reqs, files, tmp, started, faults>>

CodecParse ==
    /\ codec.pc = "named"
    /\ codec' = [codec EXCEPT !.pc = "parsed", !.out = ParseZipFilename(codec.file)]
    /\ UNCHANGED <<reqs, files, tmp, started, faults>>

(***************************************************************************)
(* The hash cache: one file per (version, platform) under                  *)
(* hashes/<namespace>/<name>/.  A path is the sequence of its segments;    *)
(* files maps each existing path to the file's content.                    *)
(***************************************************************************)
CacheRoot == <<"h","a","s","h","e","s">>

H1Suffix == <<".","h","1">>

\* filepath.Clean on the elements of a path: "." is dropped, ".." takes
\* back the element before it
RECURSIVE Clean(_)
Clean(elems) ==
    IF elems = <<>> THEN <<>>
    ELSE LET before == Clean(SubSeq(elems, 1, Len(elems) - 1))
             e == elems[Len(elems)]
         IN  IF e = <<".">> THEN before
             ELSE IF e = <<".", ".">> /\ before # <<>> /\ before[Len(before)] # <<".", ".">>
             THEN SubSeq(before, 1, Len(before) - 1)
             ELSE Append(before, e)

\* filepath.Join: empty elements are ignored, the result is cleaned
PathJoin(elems) == Clean(SelectSeq(elems, LAMBDA e : e # <<>>))

CacheDir(namespace, name) == PathJoin(<<CacheRoot, namespace, name>>)

keyToPath(namespace, name, version, platform) ==
    PathJoin(<<CacheRoot, namespace, name, version \o <<"_">> \o platform \o H1Suffix>>)

\* HashCache.Get on the files fs: (value, ok)
CacheGet(fs, namespace, name, version, platform) ==
    LET path == keyToPath(namespace, name, version, platform)
    IN  IF path \notin DOMAIN fs
        THEN [value |-> <<>>, ok |-> FALSE]
        ELSE [value |-> TrimSpace(fs[path]), ok |-> TRUE]

\* os.WriteFile opens with O_WRONLY|O_CREATE|O_TRUNC: the file exists and is empty
OpenTrunc(fs, path) == [p \in DOMAIN fs \cup {path} |-> IF p = path THEN <<>> ELSE fs[p]]

\* the mutant of WriteData: the data is appended to what the file holds
WriteDataAppend(fs, path, data) == [fs EXCEPT ![path] = @ \o data]

\* the write of os.WriteFile on the file it opened: the data at offset 0
WriteData(fs, path, data) ==
    [fs EXCEPT ![path] = data \o SubSeq(@, Len(data) + 1, Len(@))]

\* what a reader gets of the files when its reads of the paths in unread
\* fail: os.ReadFile returns an error for them
Readable(fs, unread) == [p \in DOMAIN fs \ unread |-> fs[p]]

\* the bytes the file names of the cache are made of, in their order
Bytes ==
    <<"-", ".", "0", "1", "2", "3", "4", "5", "6", "7", "8", "9",
      "A", "B", "C", "D", "E", "F", "G", "H", "I", "J", "K", "L", "M",
      "N", "O", "P", "Q", "R", "S", "T", "U", "V", "W", "X", "Y", "Z", "_",
      "a", "b", "c", "d", "e", "f", "g", "h", "i", "j", "k", "l", "m",
      "n", "o", "p", "q", "r", "s", "t", "u", "v", "w", "x", "y", "z">>

ByteOf(c) == CHOOSE i \in 1..Len(Bytes) : Bytes[i] = c

\* a < b as strings
RECURSIVE NameLess(_, _)
NameLess(a, b) ==
    IF b = <<>> THEN FALSE
    ELSE IF a = <<>> THEN TRUE
    ELSE IF a[1] # b[1] THEN ByteOf(a[1]) < ByteOf(b[1])
    ELSE NameLess(Tail(a), Tail(b))

\* the names in the order os.ReadDir returns them: sorted by file name
RECURSIVE SortNames(_)
SortNames(names) ==
    IF names = {} THEN <<>>
    ELSE LET first == CHOOSE f \in names : \A g \in names \ {f} : NameLess(f, g)
         IN  <<first>> \o SortNames(names \ {first})

\* os.ReadDir of the cache directory: the names of the files in it
ReadDir(fs, dir) ==
    {p[Len(p)] : p \in {q \in DOMAIN fs : Len(q) = Len(dir) + 1 /\ SubSeq(q, 1, Len(dir)) = dir}}

\* the loop of GetAll over the directory entries: platform -> hash
GetAllCollect(fs, dir, entries, version) ==
    LET prefix == version \o <<"_">>
        kept == {f \in entries : /\ HasPrefix(f, prefix)
                                 /\ HasSuffix(f, H1Suffix)
                                 /\ Append(dir, f) \in DOMAIN fs}
        plat(f) == TrimSuffix(TrimPrefix(f, prefix), H1Suffix)
    IN  [p \in {plat(f) : f \in kept} |->
            TrimSpace(fs[Append(dir, CHOOSE f \in kept : plat(f) = p)])]

\* the entries the loop of GetAll does not skip, in the order of the loop
GetAllNames(entries, version) ==
    SortNames({f \in entries : /\ HasPrefix(f, version \o <<"_">>)
                               /\ HasSuffix(f, H1Suffix)})

\* one pass of the loop of GetAll on the entry f: the file is read and the
\* result map got takes its platform, or the read fails and it is skipped
GetAllRead(got, fs, dir, f, version) ==
    LET platform == TrimSuffix(TrimPrefix(f, version \o <<"_">>), H1Suffix)
    IN  IF Append(dir, f) \notin DOMAIN fs THEN got
        ELSE [p \in DOMAIN got \cup {platform} |->
                 IF p = platform THEN TrimSpace(fs[Append(dir, f)]) ELSE got[p]]

\* HashCache.GetAll when nothing else runs between its reads
GetAll(fs, namespace, name, version) ==
    GetAllCollect(fs, CacheDir(namespace, name),
                  ReadDir(fs, CacheDir(namespace, name)), version)

(***************************************************************************)
(* The origin registry: what it lists, and the archive behind a download   *)
(* url.  hash.CalculateH1 is dirhash.HashZip on the spool file: for a zip   *)
(* file a deterministic function of its content, tagged with the scheme    *)
(* "h1:", and an error for a file that is not a zip file.                  *)
(***************************************************************************)
Ns == <<"h">>

Nm == <<"r">>

V1 == <<"1">>

V2 == <<"2">>

V9 == <<"9">>

LinuxAmd == [os |-> <<"l">>, arch |-> <<"a">>]

DarwinArm == [os |-> <<"d">>, arch |-> <<"m">>]

Listings ==
    { << [version |-> V1, platforms |-> <<LinuxAmd, DarwinArm>>],
         [version |-> V1, platforms |-> <<LinuxAmd>>],
         [version |-> V2, platforms |-> <<LinuxAmd>>] >>,
      << [version |-> V2, platforms |-> <<DarwinArm>>] >>,
      << [version |-> V1, platforms |-> <<LinuxAmd>>] >> }

\* what GetJSON can return for the versions endpoint: (body, statusCode, err)
ListingAnswers ==
    {[err |-> TRUE, status |-> 0, valid |-> FALSE, listing |-> <<>>],
     [err |-> FALSE, status |-> 503, valid |-> TRUE, listing |-> <<>>],
     [err |-> FALSE, status |-> 200, valid |-> FALSE, listing |-> <<>>]}
    \cup {[err |-> FALSE, status |-> 200, valid |-> TRUE, listing |-> l] : l \in Listings}

\* what GetJSON can return for the download endpoint
ResolveAnswers ==
    {[err |-> TRUE, status |-> 0, valid |-> FALSE],
     [err |-> FALSE, status |-> 404, valid |-> TRUE],
     [err |-> FALSE, status |-> 200, valid |-> FALSE],
     [err |-> FALSE, status |-> 200, valid |-> TRUE]}

\* what the GET of the archive can return: the download url does not make
\* a request (reqErr), or a transport error, or a status, with the
\* Content-Length known (lenKnown) or not
FetchAnswers ==
    {[reqErr |-> TRUE, err |-> FALSE, status |-> 0, lenKnown |-> FALSE],
     [reqErr |-> FALSE, err |-> TRUE, status |-> 0, lenKnown |-> FALSE],
     [reqErr |-> FALSE, err |-> FALSE, status |-> 404, lenKnown |-> FALSE],
     [reqErr |-> FALSE, err |-> FALSE, status |-> 204, lenKnown |-> FALSE],
     [reqErr |-> FALSE, err |-> FALSE, status |-> 200, lenKnown |-> FALSE],
     [reqErr |-> FALSE, err |-> FALSE, status |-> 200, lenKnown |-> TRUE]}

\* the end-of-central-directory record a zip file ends with
ZipEnd == <<"K">>

\* the bytes of the archive the origin holds for a package, a zip file: a
\* content that tells the platforms of the origin apart, and the end record
Archive(version, os, arch) == os \o ZipEnd

\* what archive/zip accepts: a cut zip file has lost its end record
IsZip(bytes) == HasSuffix(bytes, ZipEnd)

\* dirhash.HashZip(zipPath, dirhash.Hash1) on a zip file
HashZip(bytes) == <<"h","1",":">> \o bytes

\* hash.CalculateH1: the hash, or the error of opening a file that is not a
\* zip file
CalculateH1(bytes) ==
    IF IsZip(bytes) THEN [h1 |-> HashZip(bytes), err |-> FALSE]
    ELSE [h1 |-> <<>>, err |-> TRUE]

(***************************************************************************)
(* The registry translator.  A Go map is a function on its key set; a      *)
(* JSON document is the record json.Marshal writes, so a field tagged      *)
(* omitempty is absent from the record when it is empty.                   *)
(***************************************************************************)
EmptyStruct == [x \in {} |-> 0]

NoJson == [type |-> "none"]

\* the mutant of VersionsMap: only the first entry of the listing is taken
VersionsMapFirst(listing) ==
    IF listing = <<>> THEN [v \in {} |-> EmptyStruct]
    ELSE [v \in {listing[1].version} |-> EmptyStruct]

\* the loop mirrorResp.Versions[v.Version] = struct{}{}
RECURSIVE VersionsMap(_)
VersionsMap(listing) ==
    IF listing = <<>> THEN [v \in {} |-> EmptyStruct]
    ELSE LET before == VersionsMap(SubSeq(listing, 1, Len(listing) - 1))
         IN  [v \in DOMAIN before \cup {listing[Len(listing)].version} |-> EmptyStruct]

\* the checks both translator operations make on the answer of GetJSON
ListingError(ans) ==
    IF ans.err THEN "fetching versions"
    ELSE IF ans.status # 200 THEN "upstream returned status"
    ELSE IF ~ans.valid THEN "parsing response"
    ELSE ""

ProviderVersions(ans) ==
    IF ListingError(ans) # ""
    THEN [err |-> ListingError(ans), json |-> NoJson]
    ELSE [err |-> "", json |-> [type |-> "index", versions |-> VersionsMap(ans.listing)]]

\* the mutant of FindVersion: without a match the first entry is taken
FindVersionOrFirst(listing, version) ==
    IF \E i \in 1..Len(listing) : listing[i].version = version
    THEN CHOOSE i \in 1..Len(listing) :
            /\ listing[i].version = version
            /\ \A j \in 1..(i - 1) : listing[j].version # version
    ELSE IF listing = <<>> THEN 0 ELSE 1

\* the search for the target version: the index of the first match, 0 for nil
FindVersion(listing, version) ==
    IF \E i \in 1..Len(listing) : listing[i].version = version
    THEN CHOOSE i \in 1..Len(listing) :
            /\ listing[i].version = version
            /\ \A j \in 1..(i - 1) : listing[j].version # version
    ELSE 0

\* json.Marshal of a MirrorArchive: Hashes has omitempty
MarshalArchive(url, hashes) ==
    IF hashes = <<>> THEN [url |-> url] ELSE [url |-> url, hashes |-> hashes]

\* the mutant of ProviderVersionDoc: every platform with a cached hash
\* gets an entry
ProviderVersionDocCached(name, version, platforms, cachedHashes) ==
    LET key(i) == Platform(platforms[i].os, platforms[i].arch)
        listed == {key(i) : i \in 1..Len(platforms)}
        last(p) == CHOOSE i \in 1..Len(platforms) :
                      key(i) = p /\ \A j \in (i + 1)..Len(platforms) : key(j) # p
    IN  [type |-> "version",
         archives |->
            [p \in listed \cup DOMAIN cachedHashes |->
                IF p \in listed
                THEN MarshalArchive(
                         ZipFilename(name, version, platforms[last(p)].os, platforms[last(p)].arch),
                         IF p \in DOMAIN cachedHashes THEN <<cachedHashes[p]>> ELSE <<>>)
                ELSE MarshalArchive(<<>>, <<cachedHashes[p]>>)]]

\* the loop over targetVersion.Platforms, a later platform replacing an
\* earlier one of the same key
ProviderVersionDoc(name, version, platforms, cachedHashes) ==
    LET key(i) == Platform(platforms[i].os, platforms[i].arch)
        last(p) == CHOOSE i \in 1..Len(platforms) :
                      key(i) = p /\ \A j \in (i + 1)..Len(platforms) : key(j) # p
    IN  [type |-> "version",
         archives |->
            [p \in {key(i) : i \in 1..Len(platforms)} |->
                MarshalArchive(
                    ZipFilename(name, version, platforms[last(p)].os, platforms[last(p)].arch),
                    IF p \in DOMAIN cachedHashes THEN <<cachedHashes[p]>> ELSE <<>>)]]

(***************************************************************************)
(* The server.  Requests are numbered in the order they arrive; each is    *)
(* served by its own goroutine, so the steps of different requests         *)
(* interleave at every access to the file system or the origin.            *)
(***************************************************************************)
Requests == 1..MaxReq

IndexJson == <<"i","n","d","e","x",".","j","s","o","n">>

JsonSuffix == <<".","j","s","o","n">>

\* the last path segment of the requests the clients send
RequestFiles ==
    {IndexJson, V1 \o JsonSuffix, V9 \o JsonSuffix,
     ZipFilename(Nm, V1, LinuxAmd.os, LinuxAmd.arch),
     ZipFilename(Nm, V1, DarwinArm.os, DarwinArm.arch),
     Prefix \o Nm \o <<"_">> \o V1 \o ZipSuffix,
     <<"x">>}

NoResp == [status |-> 0, cl |-> -1, body |-> <<>>, json |-> NoJson]

NewReq ==
    [kind |-> "none", ns |-> <<>>, name |-> <<>>, file |-> <<>>, version |-> <<>>,
     pc |-> "idle", after |-> {}, key |-> ParseError(""), hasHash |-> FALSE,
     seen |-> <<>>, listing |-> <<>>, target |-> 0, entries |-> {}, h1 |-> <<>>,
     written |-> 0, lenKnown |-> FALSE, hashErr |-> FALSE, setErr |-> FALSE,
     cached |-> FALSE, clientErr |-> FALSE, gets |-> 0, platform |-> <<>>,
     value |-> <<>>, unread |-> {}, cancelAt |-> "", todo |-> <<>>,
     got |-> EmptyStruct, fail |-> "", resp |-> NoResp,
     calls |-> [listing |-> 0, resolve |-> 0, fetch |-> 0]]

\* http.Error(w, msg, status) followed by return
Fail(q, status, cause) ==
    [q EXCEPT !.pc = "done", !.fail = cause, !.resp.status = status]

\* the dispatch of handleProviders on the file segment; handleDownload
\* starts by parsing the filename
Dispatch(q, file) ==
    IF file = IndexJson THEN [q EXCEPT !.kind = "versions", !.pc = "listing"]
    ELSE IF HasSuffix(file, JsonSuffix)
    THEN [q EXCEPT !.kind = "version", !.pc = "listing",
                   !.version = TrimSuffix(file, JsonSuffix)]
    ELSE IF HasSuffix(file, ZipSuffix)
    THEN [q EXCEPT !.kind = "download", !.pc = "lookup", !.key = ParseZipFilename(file)]
    ELSE Fail([q EXCEPT !.kind = "other"], 400, "filetype")

\* a step of the environment: a failure counts against MaxFaults (a
\* cancellation counts as one, and what follows from it in the cancelled
\* request, or happens to its unlink, is not counted again)
Env(isFault) ==
    /\ isFault => faults < MaxFaults
    /\ faults' = IF isFault THEN faults + 1 ELSE faults

\* a request for one of the files arrives, while fewer than max have
Receive(fileset, max) ==
    /\ codec.pc = "off"
    /\ started < max
    /\ \E file \in fileset :
          reqs' = [reqs EXCEPT ![started + 1] =
                      Dispatch([NewReq EXCEPT !.ns = Ns, !.name = Nm, !.file = file,
                                   !.after = {i \in Requests : reqs[i].pc = "done" /\ reqs[i].cached}],
                               file)]
    /\ started' = started + 1
    /\ UNCHANGED <<codec, files, tmp, faults>>

handleProviders == Receive(RequestFiles, MaxReq)

\* the clients only download
handleProvidersZip ==
    Receive({f \in RequestFiles : HasSuffix(f, ZipSuffix)}, MaxDownloads)

\* the clients only ask for documents
handleProvidersJson ==
    Receive({f \in RequestFiles : HasSuffix(f, JsonSuffix)}, MaxQueries)

\* a listing failure answered with an empty index document and status 200
handleVersionsStepEmpty(q, ans) ==
    LET q1 == [q EXCEPT !.calls.listing = @ + 1]
        res == ProviderVersions(ans)
    IN  IF res.err # ""
        THEN [q1 EXCEPT !.pc = "done", !.fail = "listing", !.resp.status = 200,
                        !.resp.json = [type |-> "index", versions |-> EmptyStruct]]
        ELSE [q1 EXCEPT !.pc = "done", !.listing = ans.listing,
                        !.resp.status = 200, !.resp.json = res.json]

\* handleVersions with the answer the origin gives to its one call
handleVersionsStep(q, ans) ==
    LET q1 == [q EXCEPT !.calls.listing = @ + 1]
        res == ProviderVersions(ans)
    IN  IF res.err # "" THEN Fail(q1, 502, "listing")
        ELSE [q1 EXCEPT !.pc = "done", !.listing = ans.listing,
                        !.resp.status = 200, !.resp.json = res.json]

handleVersions(r) ==
    /\ reqs[r].kind = "versions" /\ reqs[r].pc = "listing"
    /\ \E ans \in ListingAnswers :
          /\ Env(ListingError(ans) # "")
          /\ reqs' = [reqs EXCEPT ![r] = handleVersionsStep(reqs[r], ans)]
    /\ UNCHANGED <<codec, files, tmp, started>>

\* ProviderVersion up to the search for the target version, and what
\* handleVersion answers when it has failed by then
ProviderVersionFind(q, ans) ==
    LET q1 == [q EXCEPT !.calls.listing = @ + 1]
        t == FindVersion(ans.listing, q.version)
    IN  IF ListingError(ans) # "" THEN Fail(q1, 502, "listing")
        ELSE IF t = 0 THEN Fail([q1 EXCEPT !.listing = ans.listing], 502, "notfound")
        ELSE [q1 EXCEPT !.pc = "readdir", !.listing = ans.listing, !.target = t]

handleVersion(r) ==
    /\ reqs[r].kind = "version" /\ reqs[r].pc = "listing"
    /\ \E ans \in ListingAnswers :
          /\ Env(ListingError(ans) # "")
          /\ reqs' = [reqs EXCEPT ![r] = ProviderVersionFind(reqs[r], ans)]
    /\ UNCHANGED <<codec, files, tmp, started>>

\* GetAll: the directory is listed
GetAllReadDir(r) ==
    /\ reqs[r].kind = "version" /\ reqs[r].pc = "readdir"
    /\ LET dir == CacheDir(reqs[r].ns, reqs[r].name)
       IN  \/ /\ Env(FALSE)
              /\ reqs' = [reqs EXCEPT ![r] =
                             [@ EXCEPT !.pc = "readfiles", !.gets = @ + 1,
                                       !.entries = ReadDir(files, dir),
                                       !.todo = GetAllNames(ReadDir(files, dir),
                                                            reqs[r].version)]]
           \/ /\ ReadDir(files, dir) # {}
              /\ Env(TRUE)
              /\ reqs' = [reqs EXCEPT ![r] =
                             [@ EXCEPT !.pc = "readfiles", !.gets = @ + 1,
                                       !.entries = {}, !.unread = {dir}]]
    /\ UNCHANGED <<codec, files, tmp, started>>

\* the rest of ProviderVersion and handleVersion: the document is built
\* from the result of GetAll and written to the client
ProviderVersionRespond(q) ==
    [q EXCEPT !.pc = "done", !.resp.status = 200,
              !.resp.json =
                  ProviderVersionDoc(q.name, q.version, q.listing[q.target].platforms,
                                     q.got)]

\* the loop of GetAll, one entry of the directory at a step: the next file
\* is read (or its read fails), and after the last one the document goes
\* to the client
GetAllStep(q, fs, u) ==
    IF q.todo = <<>> THEN ProviderVersionRespond(q)
    ELSE LET q1 == [q EXCEPT !.todo = Tail(@), !.unread = @ \cup u,
                             !.got = GetAllRead(@, Readable(fs, u),
                                                CacheDir(q.ns, q.name),
                                                Head(q.todo), q.version)]
         IN  IF q1.todo = <<>> THEN ProviderVersionRespond(q1) ELSE q1

GetAllReadFiles(r) ==
    /\ reqs[r].kind = "version" /\ reqs[r].pc = "readfiles"
    /\ \E u \in {{}} \cup (IF reqs[r].todo = <<>> THEN {}
                            ELSE {{Append(CacheDir(reqs[r].ns, reqs[r].name),
                                          Head(reqs[r].todo))}}) :
          /\ Env(u # {})
          /\ reqs' = [reqs EXCEPT ![r] = GetAllStep(reqs[r], files, u)]
    /\ UNCHANGED <<codec, files, tmp, started>>

(***************************************************************************)
(* The download proxy: handleDownload and downloadWithHash, one action     *)
(* per access to the hash cache, the origin or the spool file.             *)
(***************************************************************************)
KeyPlatform(q) == Platform(q.key.os, q.key.arch)

\* the part of the handler a download is in: before the answer of
\* DownloadURL, before the answer of the archive GET, in the direct
\* stream, up to the end of the spooling copy, or after it
CancelPoint(q) ==
    IF q.pc \in {"lookup", "resolve"} THEN "resolve"
    ELSE IF q.pc \in {"fetch", "direct"} THEN q.pc
    ELSE IF q.pc \in {"createtemp", "copy"} THEN "copy"
    ELSE "late"

\* the context of the inbound request is cancelled (the client has gone)
\* while the handler of a download runs; the context goes into the two
\* origin requests of the handler
Cancel(r) ==
    /\ reqs[r].kind = "download" /\ reqs[r].pc # "done" /\ reqs[r].cancelAt = ""
    /\ Env(TRUE)
    /\ reqs' = [reqs EXCEPT ![r].cancelAt = CancelPoint(reqs[r])]
    /\ UNCHANGED <<codec, files, tmp, started>>

Cancelled(q) == q.cancelAt # ""

KeyPath(q) == keyToPath(q.ns, q.key.name, q.key.version, KeyPlatform(q))

\* the archive behind the download url of the request
OriginBody(q) == Archive(q.key.version, q.key.os, q.key.arch)

\* the mutant of handleDownloadLookup: the hash cache is asked before the
\* error of the parse is looked at
handleDownloadLookupEager(q, fs) ==
    LET k == q.key
        g == CacheGet(fs, q.ns, k.name, k.version, Platform(k.os, k.arch))
        q1 == [q EXCEPT !.hasHash = g.ok, !.seen = g.value, !.gets = @ + 1]
    IN  IF k.err # "" THEN Fail(q1, 400, "parse")
        ELSE [q1 EXCEPT !.pc = "resolve"]

\* a lookup that answers a failed read of the record with an error
handleDownloadLookupStrict(q, fs) ==
    LET k == q.key
        g == CacheGet(fs, q.ns, k.name, k.version, Platform(k.os, k.arch))
    IN  IF k.err # "" THEN Fail(q, 400, "parse")
        ELSE IF q.unread # {} THEN Fail([q EXCEPT !.gets = @ + 1], 500, "read")
        ELSE [q EXCEPT !.pc = "resolve", !.key = k, !.hasHash = g.ok, !.seen = g.value,
                       !.gets = @ + 1]

\* the error of the parse is answered, or the hash cache is asked for the key
handleDownloadLookup(q, fs) ==
    LET k == q.key
        g == CacheGet(fs, q.ns, k.name, k.version, Platform(k.os, k.arch))
    IN  IF k.err # "" THEN Fail(q, 400, "parse")
        ELSE [q EXCEPT !.pc = "resolve", !.key = k, !.hasHash = g.ok, !.seen = g.value,
                       !.gets = @ + 1]

DlLookup(r) ==
    /\ reqs[r].kind = "download" /\ reqs[r].pc = "lookup"
    /\ \E u \in {{}} \cup {{p} : p \in {KeyPath(reqs[r])} \cap
                                     (IF reqs[r].key.err = "" THEN DOMAIN files ELSE {})} :
          /\ Env(u # {})
          /\ reqs' = [reqs EXCEPT ![r] =
                         handleDownloadLookup([reqs[r] EXCEPT !.unread = u],
                                              Readable(files, u))]
    /\ UNCHANGED <<codec, files, tmp, started>>

\* a resolution that is skipped when the hash of the key is cached
handleDownloadResolveCached(q, ans) ==
    IF q.hasHash THEN [q EXCEPT !.pc = "fetch"]
    ELSE LET q1 == [q EXCEPT !.calls.resolve = @ + 1]
         IN  IF ans.err \/ ans.status # 200 \/ ~ans.valid
             THEN Fail(q1, 502, "resolve")
             ELSE [q1 EXCEPT !.pc = "fetch"]

\* DownloadURL, and the answer of handleDownload when it fails
handleDownloadResolve(q, ans) ==
    LET q1 == [q EXCEPT !.calls.resolve = @ + 1]
    IN  IF ans.err \/ ans.status # 200 \/ ~ans.valid THEN Fail(q1, 502, "resolve")
        ELSE [q1 EXCEPT !.pc = "fetch"]

DlResolve(r) ==
    /\ reqs[r].kind = "download" /\ reqs[r].pc = "resolve"
    /\ \E ans \in ResolveAnswers :
          /\ Cancelled(reqs[r]) => ans.err
          /\ Env((ans.err \/ ans.status # 200 \/ ~ans.valid) /\ ~Cancelled(reqs[r]))
          /\ reqs' = [reqs EXCEPT ![r] = handleDownloadResolve(reqs[r], ans)]
    /\ UNCHANGED <<codec, files, tmp, started>>

\* the mutant of handleDownloadFetch: every archive is spooled and hashed
handleDownloadFetchSpool(q, ans) ==
    LET q1 == [q EXCEPT !.calls.fetch = @ + 1]
    IN  IF ans.reqErr THEN Fail(q, 500, "request")
        ELSE IF ans.err THEN Fail(q1, 502, "fetch")
        ELSE IF ans.status # 200 THEN Fail(q1, ans.status, "status")
        ELSE [q1 EXCEPT !.pc = "createtemp"]

\* client.Do on the download url, the status check and the branch on hasHash
handleDownloadFetch(q, ans) ==
    LET q1 == [q EXCEPT !.calls.fetch = @ + 1]
    IN  IF ans.reqErr THEN Fail(q, 500, "request")
        ELSE IF ans.err THEN Fail(q1, 502, "fetch")
        ELSE IF ans.status # 200 THEN Fail(q1, ans.status, "status")
        ELSE [q1 EXCEPT !.lenKnown = ans.lenKnown,
                        !.pc = IF ~q.hasHash THEN "createtemp" ELSE "direct"]

DlFetch(r) ==
    /\ reqs[r].kind = "download" /\ reqs[r].pc = "fetch"
    /\ \E ans \in FetchAnswers :
          /\ Cancelled(reqs[r]) => (ans.err \/ ans.reqErr)
          /\ Env(ans.reqErr \/ ((ans.err \/ ans.status # 200) /\ ~Cancelled(reqs[r])))
          /\ reqs' = [reqs EXCEPT ![r] = handleDownloadFetch(reqs[r], ans)]
    /\ UNCHANGED <<codec, files, tmp, started>>

\* the hash is cached: the headers, then io.Copy(w, resp.Body), whose error
\* is dropped; n is the number of bytes the origin delivers before its
\* stream ends or breaks
StreamDirect(q, n) ==
    [q EXCEPT !.pc = "done", !.resp.status = 200,
              !.resp.cl = IF q.lenKnown /\ Len(OriginBody(q)) > 0
                          THEN Len(OriginBody(q)) ELSE -1,
              !.resp.body = SubSeq(OriginBody(q), 1, n)]

DlDirect(r) ==
    /\ reqs[r].kind = "download" /\ reqs[r].pc = "direct"
    /\ \E n \in 0..Len(OriginBody(reqs[r])) :
          /\ Env(n < Len(OriginBody(reqs[r])) /\ ~Cancelled(reqs[r]))
          /\ reqs' = [reqs EXCEPT ![r] = StreamDirect(reqs[r], n)]
    /\ UNCHANGED <<codec, files, tmp, started>>

\* os.CreateTemp
DlCreateTemp(r) ==
    /\ reqs[r].kind = "download" /\ reqs[r].pc = "createtemp"
    /\ \/ /\ Env(TRUE)
          /\ reqs' = [reqs EXCEPT ![r] = Fail(@, 500, "createtemp")]
          /\ tmp' = tmp
       \/ /\ Env(FALSE)
          /\ reqs' = [reqs EXCEPT ![r].pc = "copy"]
          /\ tmp' = [i \in DOMAIN tmp \cup {r} |-> IF i = r THEN <<>> ELSE tmp[i]]
    /\ UNCHANGED <<codec, files, started>>

\* defer os.Remove(tmpFile.Name()): the temporary file is removed when
\* downloadWithHash returns, unless the unlink fails; its error is dropped
\* and the file then stays
RemoveTemp(t, r, ok) == IF ok THEN [i \in DOMAIN t \ {r} |-> t[i]] ELSE t

\* the mutant of SpoolCopy: after a failed copy the archive is fetched again
SpoolCopyRefetch(q, n, err) ==
    IF err THEN [q EXCEPT !.pc = "fetch", !.lenKnown = FALSE]
    ELSE [q EXCEPT !.pc = "hash", !.written = n, !.lenKnown = FALSE]

\* a copy whose error is ignored: what was spooled goes on to be hashed
SpoolCopyPartial(q, n, err) ==
    [q EXCEPT !.pc = "hash", !.written = n, !.lenKnown = FALSE]

\* written, err := io.Copy(tmpFile, resp.Body): an error answers 502, and
\* without one the n bytes written go on to be hashed (the Content-Length
\* of the origin's answer is not looked at again on this path and leaves
\* the state)
SpoolCopy(q, n, err) ==
    IF err THEN Fail([q EXCEPT !.lenKnown = FALSE], 502, "spool")
    ELSE [q EXCEPT !.pc = "hash", !.written = n, !.lenKnown = FALSE]

\* what io.Copy can return on the body of the origin's answer: the whole
\* body and no error; an error after any number of bytes (the stream
\* broke, or the cancelled context ended it); and, for a body that has no
\* Content-Length and ends with the connection, fewer bytes and no error
\* when the connection ends early
CopyOutcomes(q) ==
    {o \in [n : 0..Len(OriginBody(q)), err : BOOLEAN] :
        (~o.err /\ o.n < Len(OriginBody(q))) => (~q.lenKnown /\ ~Cancelled(q))}

DlCopy(r) ==
    /\ reqs[r].kind = "download" /\ reqs[r].pc = "copy"
    /\ \E o \in CopyOutcomes(reqs[r]), rmOk \in BOOLEAN :
          /\ ~rmOk => o.err
          /\ Env(\/ ~rmOk /\ ~Cancelled(reqs[r])
                 \/ IF o.err THEN ~Cancelled(reqs[r]) ELSE o.n < Len(OriginBody(reqs[r])))
          /\ reqs' = [reqs EXCEPT ![r] = SpoolCopy(reqs[r], o.n, o.err)]
          /\ tmp' = LET spooled == [tmp EXCEPT ![r] = SubSeq(OriginBody(reqs[r]), 1, o.n)]
                    IN  IF reqs'[r].pc = "done" THEN RemoveTemp(spooled, r, rmOk)
                        ELSE spooled
    /\ UNCHANGED <<codec, files, started>>

\* the mutant of HashStep: a failed hash computation fails the request
HashStepFatal(q, spooled, ok) ==
    IF ok /\ ~CalculateH1(spooled).err
    THEN [q EXCEPT !.pc = "open", !.h1 = CalculateH1(spooled).h1]
    ELSE Fail([q EXCEPT !.hashErr = TRUE], 500, "hash")

\* h1, err := hash.CalculateH1(tmpFile.Name()): an error is logged and the
\* spool file is served without a hash; ok is whether the spool file could
\* be read
HashStep(q, spooled, ok) ==
    IF ok /\ ~CalculateH1(spooled).err
    THEN [q EXCEPT !.pc = "open", !.h1 = CalculateH1(spooled).h1]
    ELSE [q EXCEPT !.pc = "serve", !.hashErr = TRUE]

DlHash(r) ==
    /\ reqs[r].kind = "download" /\ reqs[r].pc = "hash"
    /\ \E ok \in BOOLEAN :
          /\ ~ok => ~CalculateH1(tmp[r]).err
          /\ Env(~ok)
          /\ reqs' = [reqs EXCEPT ![r] = HashStep(reqs[r], tmp[r], ok)]
    /\ UNCHANGED <<codec, files, tmp, started>>

\* HashCache.Set up to the open of os.WriteFile: MkdirAll or the open fails
\* and Set returns the error, or the file is created or truncated
DlSetOpen(r) ==
    /\ reqs[r].kind = "download" /\ reqs[r].pc = "open"
    /\ \/ /\ Env(TRUE)
          /\ reqs' = [reqs EXCEPT ![r] = [@ EXCEPT !.pc = "serve", !.setErr = TRUE]]
          /\ files' = files
       \/ /\ Env(FALSE)
          /\ reqs' = [reqs EXCEPT ![r].pc = "write"]
          /\ files' = OpenTrunc(files, KeyPath(reqs[r]))
    /\ UNCHANGED <<codec, tmp, started>>

\* the lengths a failed os.WriteFile can leave behind: any number of bytes
\* when the write fails, all of them when only the close fails
ShortWrites(data) == 0..Len(data)

\* the write and close of os.WriteFile and the rest of Set
DlSetWrite(r) ==
    /\ reqs[r].kind = "download" /\ reqs[r].pc = "write"
    /\ \/ /\ Env(FALSE)
          /\ reqs' = [reqs EXCEPT ![r] = [@ EXCEPT !.pc = "serve", !.cached = TRUE]]
          /\ files' = WriteData(files, KeyPath(reqs[r]), reqs[r].h1)
       \/ \E n \in ShortWrites(reqs[r].h1) :
             /\ Env(TRUE)
             /\ reqs' = [reqs EXCEPT ![r] = [@ EXCEPT !.pc = "serve", !.setErr = TRUE]]
             /\ files' = WriteData(files, KeyPath(reqs[r]), SubSeq(reqs[r].h1, 1, n))
    /\ UNCHANGED <<codec, tmp, started>>

\* the mutant of ServeSpool: the spool file is not rewound, so the copy
\* starts at its end
ServeSpoolNoSeek(q, spooled, seekOk, n) ==
    [q EXCEPT !.pc = "done", !.resp.status = 200, !.resp.cl = q.written,
              !.resp.body = <<>>]

\* the seek to the start of the spool file, the headers and
\* io.Copy(w, tmpFile), of which the client takes n bytes before its
\* connection ends; the error of the copy is dropped
ServeSpool(q, spooled, seekOk, n) ==
    IF ~seekOk THEN Fail(q, 500, "seek")
    ELSE [q EXCEPT !.pc = "done", !.resp.status = 200, !.resp.cl = q.written,
                   !.resp.body = SubSeq(spooled, 1, n), !.clientErr = n < Len(spooled)]

DlServe(r) ==
    /\ reqs[r].kind = "download" /\ reqs[r].pc = "serve"
    /\ \E seekOk, rmOk \in BOOLEAN, n \in 0..Len(tmp[r]) :
          /\ ~seekOk => n = Len(tmp[r])
          /\ Env(~seekOk \/ ((~rmOk \/ n < Len(tmp[r])) /\ ~Cancelled(reqs[r])))
          /\ reqs' = [reqs EXCEPT ![r] = ServeSpool(reqs[r], tmp[r], seekOk, n)]
          /\ tmp' = RemoveTemp(tmp, r, rmOk)
    /\ UNCHANGED <<codec, files, started>>

(***************************************************************************)
(* The specifications.                                                     *)
(***************************************************************************)
InitServer ==
    /\ reqs = [r \in Requests |-> NewReq]
    /\ files = [p \in {} |-> <<>>]
    /\ tmp = [r \in {} |-> <<>>]
    /\ started = 0
    /\ faults = 0

Init == codec = CodecOff /\ InitServer

Translate(r) ==
    \/ handleVersions(r) \/ handleVersion(r)
    \/ GetAllReadDir(r) \/ GetAllReadFiles(r)

Download(r) ==
    \/ DlLookup(r) \/ DlResolve(r) \/ DlFetch(r) \/ DlDirect(r)
    \/ DlCreateTemp(r) \/ DlCopy(r) \/ DlHash(r)
    \/ DlSetOpen(r) \/ DlSetWrite(r) \/ DlServe(r)

Next == handleProviders \/ \E r \in Requests : Translate(r) \/ Download(r) \/ Cancel(r)

Spec == Init /\ [][Next]_vars

InitCodec == codec = [CodecOff EXCEPT !.pc = "start"] /\ InitServer

NextCodec == CodecEncode \/ CodecReceive \/ CodecParse

SpecCodec == InitCodec /\ [][NextCodec]_vars

\* the download proxy on its own
NextDownload == handleProvidersZip \/ \E r \in Requests : Download(r) \/ Cancel(r)

SpecDownload == Init /\ [][NextDownload]_vars

\* the download proxy with every request's goroutine scheduled again and
\* again: each call it blocks in returns (the http clients have timeouts,
\* the server has a write timeout)
SpecDownloadFair == SpecDownload /\ \A r \in Requests : WF_vars(Download(r))

\* the hash caches earlier downloads can have left: per platform of V1,
\* no record or the hash of its archive
StoredHashes ==
    LET path(pl) == keyToPath(Ns, Nm, V1, Platform(pl.os, pl.arch))
        stored(pls) ==
            [p \in {path(pl) : pl \in pls} |->
                LET pl == CHOOSE x \in pls : path(x) = p
                IN  HashZip(Archive(V1, pl.os, pl.arch))]
    IN  {stored(pls) : pls \in SUBSET {LinuxAmd, DarwinArm}}

\* the translator on its own, over a hash cache earlier downloads have left
InitTranslate ==
    /\ codec = CodecOff
    /\ reqs = [r \in Requests |-> NewReq]
    /\ files \in StoredHashes
    /\ tmp = [r \in {} |-> <<>>]
    /\ started = 0
    /\ faults = 0

NextTranslate == handleProvidersJson \/ \E r \in Requests : Translate(r)

SpecTranslate == InitTranslate /\ [][NextTranslate]_vars

(***************************************************************************)
(* The hash cache on its own: Set and Get are called with keys             *)
(* (namespace, name, version, platform), each call in its own goroutine.   *)
(***************************************************************************)
\* the keys Set is called with: what ParseZipFilename gives the download
\* handler, a name of any form, a version without "_" and "<os>_<arch>"
SetKeys ==
    [ns : {Ns},
     name : {Nm, <<>>, <<".">>},
     version : {V1},
     platform : {<<"b", "_", "c">>, <<"l", "_", "a">>}]

\* the keys of the lookups: those, and a version and platforms of any form
StoreKeys ==
    SetKeys \cup
    [ns : {Ns},
     name : {Nm},
     version : {V1, <<"1", "_", "l">>},
     platform : {<<"a">>, <<"l", "_", "a">>}]

StoreValues == {HashZip(<<"x">>), HashZip(<<"y">>)}

StorePath(q) == keyToPath(q.ns, q.name, q.version, q.platform)

\* a caller calls Set(key, value) or Get(key)
StoreCall ==
    /\ codec.pc = "off"
    /\ started < MaxStoreOps
    /\ \E op \in {"set", "get"}, v \in StoreValues :
       \E k \in IF op = "set" THEN SetKeys ELSE StoreKeys :
          reqs' = [reqs EXCEPT ![started + 1] =
                      [NewReq EXCEPT !.kind = op, !.ns = k.ns, !.name = k.name,
                                     !.version = k.version, !.platform = k.platform,
                                     !.value = IF op = "set" THEN v ELSE <<>>,
                                     !.pc = IF op = "set" THEN "open" ELSE "get"]]
    /\ started' = started + 1
    /\ UNCHANGED <<codec, files, tmp, faults>>

\* HashCache.Get: a record whose os.ReadFile fails is reported absent
StoreGet(r) ==
    /\ reqs[r].kind = "get" /\ reqs[r].pc = "get"
    /\ \E u \in {{}} \cup {{p} : p \in {StorePath(reqs[r])} \cap DOMAIN files} :
          /\ Env(u # {})
          /\ LET g == CacheGet(Readable(files, u), reqs[r].ns, reqs[r].name,
                               reqs[r].version, reqs[r].platform)
             IN  reqs' = [reqs EXCEPT ![r] = [@ EXCEPT !.pc = "done", !.gets = @ + 1,
                                                      !.unread = u,
                                                      !.hasHash = g.ok, !.seen = g.value]]
    /\ UNCHANGED <<codec, files, tmp, started>>

\* HashCache.Set up to the open of os.WriteFile
StoreSetOpen(r) ==
    /\ reqs[r].kind = "set" /\ reqs[r].pc = "open"
    /\ \/ /\ Env(TRUE)
          /\ reqs' = [reqs EXCEPT ![r] = [@ EXCEPT !.pc = "done", !.setErr = TRUE]]
          /\ files' = files
       \/ /\ Env(FALSE)
          /\ reqs' = [reqs EXCEPT ![r].pc = "write"]
          /\ files' = OpenTrunc(files, StorePath(reqs[r]))
    /\ UNCHANGED <<codec, tmp, started>>

\* the write and close of os.WriteFile
StoreSetWrite(r) ==
    /\ reqs[r].kind = "set" /\ reqs[r].pc = "write"
    /\ \/ /\ Env(FALSE)
          /\ reqs' = [reqs EXCEPT ![r] = [@ EXCEPT !.pc = "done", !.cached = TRUE]]
          /\ files' = WriteData(files, StorePath(reqs[r]), reqs[r].value)
       \/ \E n \in ShortWrites(reqs[r].value) :
             /\ Env(TRUE)
             /\ reqs' = [reqs EXCEPT ![r] = [@ EXCEPT !.pc = "done", !.setErr = TRUE]]
             /\ files' = WriteData(files, StorePath(reqs[r]), SubSeq(reqs[r].value, 1, n))
    /\ UNCHANGED <<codec, tmp, started>>

NextStore ==
    StoreCall \/ \E r \in Requests : StoreGet(r) \/ StoreSetOpen(r) \/ StoreSetWrite(r)

SpecStore == Init /\ [][NextStore]_vars

(***************************************************************************)
(* Vocabulary of the properties.                                           *)
(***************************************************************************)
Range(s) == {s[i] : i \in 1..Len(s)}

IsDone(r, kind) == reqs[r].kind = kind /\ reqs[r].pc = "done"

Success(q) == q.resp.status \in 200..299

\* the client got the whole archive, with its exact length announced
FullArchive(q) ==
    /\ q.resp.status = 200
    /\ q.resp.body = OriginBody(q)
    /\ q.resp.cl = Len(OriginBody(q))

\* the hash of the archive the origin holds for a platform key of a version
HashOfPlatform(version, p) ==
    {HashZip(Archive(version, pl.os, pl.arch)) :
        pl \in {x \in {LinuxAmd, DarwinArm} : Platform(x.os, x.arch) = p}}

(***************************************************************************)
(* C1.  Round trip of the codec: the filename built from (name, version,  *)
(* os, arch), where only name may contain "_", parses back to exactly      *)
(* that identity, without an error.                                        *)
(***************************************************************************)
C1_RoundTrip ==
    (codec.pc = "parsed" /\ codec.id # NoIdentity) =>
        codec.out = [err |-> "", name |-> codec.id.name, version |-> codec.id.version,
                     os |-> codec.id.os, arch |-> codec.id.arch]

C1_Witness ==
    /\ codec.pc = "parsed"
    /\ codec.id # NoIdentity
    /\ "_" \in Range(codec.id.name)
    /\ codec.out.err = ""
    /\ codec.out.name = codec.id.name

(***************************************************************************)
(* C2.  ParseZipFilename rejects, with an error and no parsed identity,    *)
(* every input that lacks the ".zip" suffix, or lacks the                  *)
(* "terraform-provider-" prefix, or has fewer than 4 "_"-separated         *)
(* segments between the two.                                               *)
(***************************************************************************)
C2_Malformed(f) ==
    \/ ~HasSuffix(f, ZipSuffix)
    \/ ~HasPrefix(f, Prefix)
    \/ Len(Split(TrimPrefix(TrimSuffix(f, ZipSuffix), Prefix), "_")) < 4

C2_RejectsMalformed ==
    (codec.pc = "parsed" /\ C2_Malformed(codec.file)) =>
        /\ codec.out.err # ""
        /\ codec.out = ParseError(codec.out.err)

(***************************************************************************)
(* C3.  The index document of a successful listVersions has exactly the    *)
(* distinct version strings of the origin listing as its keys, each        *)
(* mapped to an empty object: duplicates collapse and no platform          *)
(* information is carried.                                                 *)
(***************************************************************************)
C3_IndexKeys ==
    \A r \in Requests :
        (IsDone(r, "versions") /\ reqs[r].fail = "") =>
            LET doc == reqs[r].resp.json
                l == reqs[r].listing
            IN  /\ reqs[r].resp.status = 200
                /\ doc.type = "index"
                /\ DOMAIN doc = {"type", "versions"}
                /\ DOMAIN doc.versions = {l[i].version : i \in 1..Len(l)}
                /\ \A v \in DOMAIN doc.versions : doc.versions[v] = EmptyStruct

C3_Witness ==
    \E r \in Requests :
        /\ IsDone(r, "versions") /\ reqs[r].fail = ""
        /\ \E i, j \in 1..Len(reqs[r].listing) :
              i # j /\ reqs[r].listing[i].version = reqs[r].listing[j].version
        /\ DOMAIN reqs[r].resp.json.versions = {V1, V2}

(***************************************************************************)
(* C4.  In the version document, the entry of every platform of the        *)
(* matched version carries as hashes exactly the value the hash cache      *)
(* held for the key when its file was read, if the cache had a record of   *)
(* it, and no hashes key if it had none; an empty hash is never written.   *)
(* Checked at the steps that read the cache files and at the step that     *)
(* writes the document; a record counts as existing when it was there as   *)
(* the directory was listed and its file could be read.                    *)
(***************************************************************************)
C4_ReadExact(q, q2, fs) ==
    LET f == Head(q.todo)
        p == TrimSuffix(TrimPrefix(f, q.version \o <<"_">>), H1Suffix)
        g == CacheGet(fs, q.ns, q.name, q.version, p)
    IN  IF Append(CacheDir(q.ns, q.name), f) \in q2.unread THEN q2.got = q.got
        ELSE g.ok /\ p \in DOMAIN q2.got /\ q2.got[p] = g.value

C4_EntryExact(q, p, e) ==
    LET path == keyToPath(q.ns, q.name, q.version, p)
    IN  IF path[Len(path)] \in q.entries /\ path \notin q.unread
        THEN /\ "hashes" \in DOMAIN e
             /\ p \in DOMAIN q.got
             /\ e.hashes = <<q.got[p]>>
             /\ q.got[p] # <<>>
        ELSE "hashes" \notin DOMAIN e

C4_HashesExact ==
    [][\A r \in Requests :
          /\ (reqs[r].pc = "readfiles" /\ reqs[r].todo # <<>>
                  /\ reqs'[r].todo # reqs[r].todo) =>
                 C4_ReadExact(reqs[r], reqs'[r], files)
          /\ (reqs[r].pc = "readfiles" /\ reqs'[r].pc = "done") =>
                 \A p \in DOMAIN reqs'[r].resp.json.archives :
                     C4_EntryExact(reqs'[r], p, reqs'[r].resp.json.archives[p])]_vars

(***************************************************************************)
(* C5.  A getVersion whose version string is not in the listing the        *)
(* origin returned ends with the version-not-found error: no document and  *)
(* no success status go to the client, and the request has made the one    *)
(* listing call and no download-resolution or archive call.                *)
(***************************************************************************)
C5_Unknown(q) ==
    /\ q.fail # "listing"
    /\ \A i \in 1..Len(q.listing) : q.listing[i].version # q.version

C5_VersionNotFound ==
    \A r \in Requests :
        (IsDone(r, "version") /\ C5_Unknown(reqs[r])) =>
            /\ reqs[r].fail = "notfound"
            /\ ~Success(reqs[r])
            /\ reqs[r].resp.json = NoJson
            /\ reqs[r].calls = [listing |-> 1, resolve |-> 0, fetch |-> 0]

C5_Witness ==
    \E r \in Requests :
        /\ IsDone(r, "version") /\ C5_Unknown(reqs[r])
        /\ reqs[r].version = V9
        /\ Len(reqs[r].listing) > 0
        /\ reqs[r].fail = "notfound"

(***************************************************************************)
(* C6.  A first download of a key (no record in the hash cache, the        *)
(* origin serving the whole archive with status 200, hash computed and     *)
(* stored)                                                                 *)
(* gives the client the complete archive, and every getVersion that        *)
(* starts after it has finished and reads the cache without a read         *)
(* failure lists, for that platform, the hash of the archive.              *)
(***************************************************************************)
C6_FirstDownload(q) ==
    /\ q.kind = "download" /\ q.pc = "done"
    /\ ~q.hasHash /\ q.cached /\ q.fail = "" /\ ~q.clientErr
    /\ q.written = Len(OriginBody(q))

C6_Later(g, d) ==
    /\ reqs[g].kind = "version" /\ reqs[g].pc = "done" /\ Success(reqs[g])
    /\ reqs[g].unread = {}
    /\ d \in reqs[g].after
    /\ reqs[g].ns = reqs[d].ns
    /\ reqs[g].name = reqs[d].key.name
    /\ reqs[g].version = reqs[d].key.version
    /\ KeyPlatform(reqs[d]) \in DOMAIN reqs[g].resp.json.archives

C6_DownloadThenListed ==
    \A d \in Requests :
        C6_FirstDownload(reqs[d]) =>
            /\ FullArchive(reqs[d])
            /\ \A g \in Requests :
                  C6_Later(g, d) =>
                      LET e == reqs[g].resp.json.archives[KeyPlatform(reqs[d])]
                      IN  /\ "hashes" \in DOMAIN e
                          /\ e.hashes = <<HashZip(OriginBody(reqs[d]))>>

(***************************************************************************)
(* C7.  Two concurrent first downloads of the same key, the only requests  *)
(* for it, both storing the hash: both clients get the complete archive    *)
(* with its exact length, and once both have finished the hash cache       *)
(* holds for the key exactly the hash of the archive.                      *)
(***************************************************************************)
C7_Pair(a, b) ==
    /\ a # b
    /\ C6_FirstDownload(reqs[a]) /\ C6_FirstDownload(reqs[b])
    /\ reqs[a].ns = reqs[b].ns /\ reqs[a].key = reqs[b].key
    /\ \A c \in Requests \ {a, b} :
          ~(reqs[c].kind = "download" /\ reqs[c].file = reqs[a].file)

C7_ConcurrentFirstDownloads ==
    \A a, b \in Requests :
        C7_Pair(a, b) =>
            /\ FullArchive(reqs[a]) /\ FullArchive(reqs[b])
            /\ KeyPath(reqs[a]) \in DOMAIN files
            /\ files[KeyPath(reqs[a])] = HashZip(OriginBody(reqs[a]))
            /\ CacheGet(files, reqs[a].ns, reqs[a].key.name, reqs[a].key.version,
                        KeyPlatform(reqs[a]))
                 = [value |-> HashZip(OriginBody(reqs[a])), ok |-> TRUE]

C7_Witness ==
    \E a, b \in Requests :
        /\ C7_Pair(a, b)
        /\ FullArchive(reqs[a]) /\ FullArchive(reqs[b])
        /\ files[KeyPath(reqs[a])] = HashZip(OriginBody(reqs[a]))

(***************************************************************************)
(* C8.  A reader of the hash cache never observes a partial value: the     *)
(* value a download's Get found, and every hash a version document got     *)
(* from GetAll, is a complete hash of the key's archive, never an empty    *)
(* or cut one.                                                             *)
(***************************************************************************)
C8_ReadsComplete ==
    \A r \in Requests :
        /\ (reqs[r].kind = "download" /\ reqs[r].hasHash) =>
              reqs[r].seen = HashZip(OriginBody(reqs[r]))
        /\ (IsDone(r, "version") /\ Success(reqs[r])) =>
              \A p \in DOMAIN reqs[r].resp.json.archives :
                  LET e == reqs[r].resp.json.archives[p]
                  IN  "hashes" \in DOMAIN e =>
                          e.hashes[1] \in HashOfPlatform(reqs[r].version, p)

(***************************************************************************)
(* C9.  Once the origin body is spooled in full, a failure of the hash     *)
(* computation or of the write to the hash cache does not change what the  *)
(* client gets: status 200, the complete spooled bytes, the exact          *)
(* Content-Length (to a client that stays connected).                      *)
(***************************************************************************)
C9_HashErrorsContained ==
    \A r \in Requests :
        (IsDone(r, "download") /\ (reqs[r].hashErr \/ reqs[r].setErr)
            /\ reqs[r].written = Len(OriginBody(reqs[r]))
            /\ reqs[r].fail # "seek" /\ ~reqs[r].clientErr) =>
            /\ FullArchive(reqs[r])
            /\ reqs[r].resp.cl = reqs[r].written

C9_Witness ==
    \E r \in Requests :
        /\ IsDone(r, "download") /\ reqs[r].hashErr
        /\ FullArchive(reqs[r])

(***************************************************************************)
(* C10.  Whatever is answered with a success status is complete: a         *)
(* download delivers the whole origin archive to a client that stays       *)
(* connected, also when the origin stream breaks, and a JSON answer is a   *)
(* complete document.                                                      *)
(***************************************************************************)
C10_SuccessIsComplete ==
    \A r \in Requests :
        (reqs[r].pc = "done" /\ Success(reqs[r]) /\ ~reqs[r].clientErr) =>
            /\ reqs[r].kind = "download" => reqs[r].resp.body = OriginBody(reqs[r])
            /\ reqs[r].kind = "versions" => reqs[r].resp.json.type = "index"
            /\ reqs[r].kind = "version" => reqs[r].resp.json.type = "version"

(***************************************************************************)
(* C11.  A getVersion that fails because the listing has no such version   *)
(* is answered with a client error of the not-found class (4xx), not with  *)
(* the gateway status 502 that answers a failure of the origin.            *)
(***************************************************************************)
C11_NotFoundClass ==
    \A r \in Requests :
        (IsDone(r, "version") /\ reqs[r].fail = "notfound") =>
            /\ reqs[r].resp.status \in 400..499
            /\ reqs[r].resp.status # 502

(***************************************************************************)
(* C12.  No spool file outlives its request: the temporary files that      *)
(* exist belong to downloads that are between the creation of the spool    *)
(* and their return, so a download that has returned, on whichever path    *)
(* (copy error, hash error, cache write error, seek error, client write    *)
(* error, success), has no temporary file left.                            *)
(***************************************************************************)
C12_Spooling == {"copy", "hash", "open", "write", "serve"}

C12_SpoolRemoved ==
    /\ \A r \in DOMAIN tmp : reqs[r].kind = "download" /\ reqs[r].pc \in C12_Spooling
    /\ \A r \in Requests : reqs[r].pc = "done" => r \notin DOMAIN tmp

(***************************************************************************)
(* C13.  Isolation of keys in the hash cache: a step of Set on a key k1    *)
(* leaves the answer of Get unchanged for every other key k2, that is,     *)
(* two different keys never share a record.                                *)
(***************************************************************************)
C13_GetOf(fs, k) == CacheGet(fs, k.ns, k.name, k.version, k.platform)

C13_KeyOf(q) == [ns |-> q.ns, name |-> q.name, version |-> q.version, platform |-> q.platform]

C13_KeyIsolation ==
    [][\A r \in Requests :
          (reqs[r].kind = "set" /\ reqs'[r].pc # reqs[r].pc) =>
              \A k2 \in StoreKeys \ {C13_KeyOf(reqs[r])} :
                  C13_GetOf(files', k2) = C13_GetOf(files, k2)]_vars

(***************************************************************************)
(* C14.  Records of the hash cache are permanent: once the file of a key   *)
(* holds a value (Get answers with a non-empty hash), every later step of  *)
(* any request leaves the file in place with the same value.               *)
(***************************************************************************)
C14_RecordsPermanent ==
    [][\A p \in DOMAIN files :
          TrimSpace(files[p]) # <<>> =>
              /\ p \in DOMAIN files'
              /\ TrimSpace(files'[p]) = TrimSpace(files[p])]_vars

(***************************************************************************)
(* C15.  The state machine of a download.  The states of the design map    *)
(* to the handler's position; a download moves only along                  *)
(* Idle -> ResolvingLocation -> FetchingOrigin ->                          *)
(* (StreamingDirect | StreamingAndHashing) -> Done, or from a              *)
(* non-terminal state to Failed; Done and Failed are never left, no state  *)
(* is entered twice, and every download received reaches Done or Failed.   *)
(***************************************************************************)
C15_State(q) ==
    IF q.pc = "done" THEN (IF q.fail = "" THEN "Done" ELSE "Failed")
    ELSE IF q.pc = "idle" THEN "Idle"
    ELSE IF q.pc \in {"lookup", "resolve"} THEN "ResolvingLocation"
    ELSE IF q.pc = "fetch" THEN "FetchingOrigin"
    ELSE IF q.pc = "direct" THEN "StreamingDirect"
    ELSE "StreamingAndHashing"

C15_Edges ==
    {<<"Idle", "ResolvingLocation">>, <<"ResolvingLocation", "FetchingOrigin">>,
     <<"FetchingOrigin", "StreamingDirect">>, <<"FetchingOrigin", "StreamingAndHashing">>,
     <<"StreamingDirect", "Done">>, <<"StreamingAndHashing", "Done">>}
    \cup {<<s, "Failed">> : s \in {"Idle", "ResolvingLocation", "FetchingOrigin",
                                   "StreamingDirect", "StreamingAndHashing"}}

C15_StateMachine ==
    /\ [][\A r \in Requests :
             reqs'[r].kind = "download" =>
                 \/ C15_State(reqs'[r]) = C15_State(reqs[r])
                 \/ <<C15_State(reqs[r]), C15_State(reqs'[r])>> \in C15_Edges]_vars
    /\ \A r \in Requests :
          (reqs[r].kind = "download") ~> (reqs[r].pc = "done")

C15_Witness ==
    \E a, b \in Requests :
        /\ IsDone(a, "download") /\ C15_State(reqs[a]) = "Done" /\ ~reqs[a].hasHash
        /\ IsDone(b, "download") /\ C15_State(reqs[b]) = "Done" /\ reqs[b].hasHash
        /\ a \in reqs[b].after

(***************************************************************************)
(* C16.  The policy for repeated requests: a download streams directly     *)
(* exactly when its lookup in the hash cache found a record for its key,   *)
(* and spools and hashes exactly when it found none; a download that       *)
(* found a record creates no spool file, computes no hash, and none of     *)
(* its steps writes the hash cache.                                        *)
(***************************************************************************)
C16_Policy(r) ==
    LET q == reqs[r]
    IN  /\ q.pc = "direct" => q.hasHash
        /\ q.pc \in C12_Spooling \cup {"createtemp"} => ~q.hasHash
        /\ q.hasHash =>
              /\ r \notin DOMAIN tmp
              /\ q.written = 0 /\ q.h1 = <<>> /\ ~q.hashErr
              /\ ~q.cached /\ ~q.setErr

C16_RepeatPolicy ==
    /\ [](\A r \in Requests : reqs[r].kind = "download" => C16_Policy(r))
    /\ [][\A r \in Requests :
             (reqs[r].kind = "download" /\ reqs[r].hasHash /\ reqs'[r] # reqs[r]) =>
                 files' = files /\ tmp' = tmp]_vars

C16_Witness ==
    \E a, b \in Requests :
        /\ IsDone(a, "download") /\ reqs[a].cached
        /\ IsDone(b, "download") /\ reqs[b].hasHash /\ reqs[b].key = reqs[a].key
        /\ a \in reqs[b].after
        /\ reqs[b].seen = reqs[a].h1
        /\ FullArchive(reqs[b]) \/ reqs[b].resp.cl = -1
        /\ reqs[b].resp.body = OriginBody(reqs[b])
        /\ files[KeyPath(reqs[b])] = reqs[a].h1

(***************************************************************************)
(* C17.  Failures while resolving the location.  A download whose          *)
(* filename does not parse ends with a client error (400) without asking   *)
(* the hash cache or the origin for anything.  A download whose location   *)
(* the origin does not resolve (transport error, status other than 200,    *)
(* or unreadable answer) ends with the gateway error 502 after that one    *)
(* call: no GET of the archive, no spool file, no hash, and the step that  *)
(* fails it leaves the hash cache as it was.                               *)
(***************************************************************************)
C17_NothingSpooled(r) ==
    /\ r \notin DOMAIN tmp
    /\ reqs[r].written = 0 /\ reqs[r].h1 = <<>>
    /\ ~reqs[r].cached /\ ~reqs[r].setErr /\ ~reqs[r].hashErr
    /\ reqs[r].resp.body = <<>>

C17_ParseFailed(r) == IsDone(r, "download") /\ reqs[r].key.err # ""

C17_ResolveFailed(r) == IsDone(r, "download") /\ reqs[r].fail = "resolve"

C17_ResolvingFailures ==
    /\ [](\A r \in Requests :
             /\ C17_ParseFailed(r) =>
                   /\ reqs[r].fail = "parse" /\ reqs[r].resp.status = 400
                   /\ reqs[r].gets = 0 /\ ~reqs[r].hasHash
                   /\ reqs[r].calls = [listing |-> 0, resolve |-> 0, fetch |-> 0]
                   /\ C17_NothingSpooled(r)
             /\ C17_ResolveFailed(r) =>
                   /\ reqs[r].resp.status = 502
                   /\ reqs[r].calls = [listing |-> 0, resolve |-> 1, fetch |-> 0]
                   /\ C17_NothingSpooled(r))
    /\ [][\A r \in Requests :
             (reqs[r].pc # "done" /\ reqs'[r].fail \in {"parse", "resolve"}) =>
                 files' = files /\ tmp' = tmp]_vars

C17_Witness ==
    \E a, b \in Requests :
        /\ C17_ParseFailed(a) /\ reqs[a].resp.status = 400
        /\ C17_ResolveFailed(b) /\ reqs[b].resp.status = 502 /\ reqs[b].gets = 1

(***************************************************************************)
(* C18.  Failures while fetching from the origin.  A download whose GET    *)
(* of the archive fails at transport level, or is answered with a status   *)
(* the proxy does not accept, ends with an error status (4xx or 5xx,       *)
(* never 2xx) and no archive bytes; no spool file was created, no hash     *)
(* computed and nothing written to the hash cache by it.                   *)
(***************************************************************************)
C18_FetchFailed(r) == IsDone(r, "download") /\ reqs[r].fail \in {"fetch", "status"}

C18_FetchFailures ==
    \A r \in Requests :
        C18_FetchFailed(r) =>
            /\ ~Success(reqs[r])
            /\ reqs[r].resp.status \in 400..599
            /\ reqs[r].calls.fetch = 1
            /\ C17_NothingSpooled(r)

(***************************************************************************)
(* C19.  Order of the spooling branch, as stated.  A download that found   *)
(* no record sends nothing to the client while it spools, hashes and       *)
(* stores; when it answers 200 the origin body is completely in the spool  *)
(* file, the hash computation has been attempted and, if it gave a hash,   *)
(* so has the write to the hash cache; Content-Length is the number of     *)
(* bytes spooled and the body is the origin body from its first byte (all  *)
(* of it to a client that stays connected).                                *)
(***************************************************************************)
C19_Served(q) ==
    /\ q.written = Len(OriginBody(q))
    /\ q.hashErr \/ q.h1 = HashZip(OriginBody(q))
    /\ q.h1 # <<>> => (q.cached \/ q.setErr)
    /\ q.resp.cl = q.written
    /\ q.resp.body = SubSeq(OriginBody(q), 1, Len(q.resp.body))
    /\ ~q.clientErr => q.resp.body = OriginBody(q)

C19_SpoolThenServe ==
    /\ [](\A r \in Requests :
             (reqs[r].kind = "download" /\ ~reqs[r].hasHash) =>
                 /\ reqs[r].pc # "done" => reqs[r].resp = NoResp
                 /\ (reqs[r].pc = "done" /\ reqs[r].resp.status = 200) => C19_Served(reqs[r]))
    /\ [][\A r \in Requests :
             (reqs[r].kind = "download" /\ ~reqs[r].hasHash
                 /\ reqs[r].resp = NoResp /\ reqs'[r].resp.status = 200) =>
                 /\ reqs[r].pc = "serve"
                 /\ tmp[r] = OriginBody(reqs[r])]_vars

(***************************************************************************)
(* C19 with the spool file in the place of the origin body.  A download    *)
(* that found no record sends nothing to the                               *)
(* client while it spools, hashes and stores; when it answers 200 the      *)
(* copy of the origin's answer to the spool file has ended without error,  *)
(* the hash computation on the spool file has been attempted and, if it    *)
(* gave a hash, so has the write to the hash cache; Content-Length is the  *)
(* number of bytes spooled and the body is the spool file from its first   *)
(* byte (all of it to a client that stays connected).  The spool file is   *)
(* the whole origin body, except that for an answer without                *)
(* Content-Length it is what the origin sent before its connection ended.  *)
(***************************************************************************)
C19_Spooled(q) == SubSeq(OriginBody(q), 1, q.written)

C19_ServedFromSpool(q) ==
    /\ q.hashErr \/ q.h1 = HashZip(C19_Spooled(q))
    /\ q.h1 # <<>> => (q.cached \/ q.setErr)
    /\ q.resp.cl = q.written
    /\ q.resp.body = SubSeq(C19_Spooled(q), 1, Len(q.resp.body))
    /\ ~q.clientErr => q.resp.body = C19_Spooled(q)

C19_SpoolEndedThenServe ==
    /\ [](\A r \in Requests :
             (reqs[r].kind = "download" /\ ~reqs[r].hasHash) =>
                 /\ reqs[r].pc # "done" => reqs[r].resp = NoResp
                 /\ (reqs[r].pc = "done" /\ reqs[r].resp.status = 200) =>
                        C19_ServedFromSpool(reqs[r]))
    /\ [][\A r \in Requests :
             (reqs[r].kind = "download" /\ ~reqs[r].hasHash
                 /\ reqs[r].resp = NoResp /\ reqs'[r].resp.status = 200) =>
                 /\ reqs[r].pc = "serve"
                 /\ tmp[r] = C19_Spooled(reqs[r])]_vars
    /\ [][\A r \in Requests :
             (reqs[r].kind = "download" /\ reqs[r].pc = "copy" /\ reqs'[r].pc = "hash") =>
                 /\ tmp'[r] = C19_Spooled(reqs'[r])
                 /\ reqs'[r].written = Len(OriginBody(reqs[r])) \/ ~reqs[r].lenKnown]_vars

\* a download served from a spool file that holds what the origin sent
\* before its connection ended, less than the archive
C19_Witness ==
    \E r \in Requests :
        /\ IsDone(r, "download") /\ ~reqs[r].hasHash /\ reqs[r].hashErr
        /\ reqs[r].resp.status = 200
        /\ reqs[r].written > 0 /\ reqs[r].written < Len(OriginBody(reqs[r]))
        /\ reqs[r].resp.cl = reqs[r].written
        /\ reqs[r].resp.body = C19_Spooled(reqs[r])

(***************************************************************************)
(* C20.  Shape of the archives map of a version document: its keys are     *)
(* exactly the "<os>_<arch>" platforms the origin lists in the first       *)
(* entry of the listing whose version equals the requested one, the url    *)
(* of each is the zip filename of (name, version, os, arch), and a record  *)
(* of the hash cache for a platform that entry does not list adds no key.  *)
(***************************************************************************)
C20_Matched(q) ==
    LET first == CHOOSE i \in 1..Len(q.listing) :
                     /\ q.listing[i].version = q.version
                     /\ \A j \in 1..(i - 1) : q.listing[j].version # q.version
    IN  Range(q.listing[first].platforms)

C20_ArchiveMapShape ==
    \A r \in Requests :
        (IsDone(r, "version") /\ Success(reqs[r])) =>
            LET q == reqs[r]
                a == q.resp.json.archives
            IN  /\ DOMAIN a = {Platform(pl.os, pl.arch) : pl \in C20_Matched(q)}
                /\ \A pl \in C20_Matched(q) :
                      a[Platform(pl.os, pl.arch)].url =
                          ZipFilename(q.name, q.version, pl.os, pl.arch)

C20_Witness ==
    \E r \in Requests :
        /\ IsDone(r, "version") /\ Success(reqs[r])
        /\ (V1 \o <<"_">> \o Platform(DarwinArm.os, DarwinArm.arch) \o H1Suffix)
               \in reqs[r].entries
        /\ DOMAIN reqs[r].resp.json.archives = {Platform(LinuxAmd.os, LinuxAmd.arch)}
        /\ reqs[r].resp.json.archives[Platform(LinuxAmd.os, LinuxAmd.arch)].url =
               ZipFilename(Nm, V1, LinuxAmd.os, LinuxAmd.arch)


(***************************************************************************)
(* C21.  No retry and no caching of origin answers.  A listVersions or     *)
(* getVersion request that has ended has issued exactly one origin listing *)
(* call (and none before its step), and no resolution call or archive GET; *)
(* a download request issues no listing call, at most one resolution call  *)
(* and at most one archive GET; a download that has passed decoding and    *)
(* has gone beyond the resolution step has issued exactly one resolution   *)
(* call, whether or not the hash was cached; and a request that failed at  *)
(* an origin call has issued that call once and no later call.             *)
(***************************************************************************)
C21_Translate(q) ==
    /\ q.calls.resolve = 0 /\ q.calls.fetch = 0
    /\ q.calls.listing = (IF q.pc = "listing" THEN 0 ELSE 1)

C21_Download(q) ==
    /\ q.calls.listing = 0
    /\ q.calls.resolve <= 1 /\ q.calls.fetch <= 1
    /\ q.calls.resolve = (IF q.key.err # "" \/ q.pc \in {"lookup", "resolve"} THEN 0 ELSE 1)
    /\ q.fail = "resolve" => q.calls.resolve = 1 /\ q.calls.fetch = 0
    /\ q.fail \in {"fetch", "status"} => q.calls.fetch = 1

C21_NoRetryNoCaching ==
    \A r \in Requests :
        /\ reqs[r].kind \in {"versions", "version"} => C21_Translate(reqs[r])
        /\ reqs[r].kind = "download" => C21_Download(reqs[r])

\* a download served from a cached hash that has resolved and fetched afresh
C21_Witness ==
    \E r \in Requests :
        /\ IsDone(r, "download") /\ reqs[r].hasHash /\ Success(reqs[r])
        /\ reqs[r].calls = [listing |-> 0, resolve |-> 1, fetch |-> 1]
        /\ \E g \in Requests : IsDone(g, "version") /\ reqs[g].calls.listing = 1


(***************************************************************************)
(* C22.  Cancellation.  A download whose inbound request is cancelled      *)
(* while it is in ResolvingLocation ends at the resolution call with the   *)
(* failure of that call (or at the decoding error before it) and never     *)
(* reaches the archive GET; cancelled while in FetchingOrigin it ends at   *)
(* the archive GET with the failure of that call and copies nothing;       *)
(* cancelled while the body is copied, the spooling copy either had the    *)
(* whole body or ends the request with the spool failure, and the direct   *)
(* stream ends the request.  A cancelled request that has ended has left   *)
(* no spool file, a download cancelled before its copy has ended computes  *)
(* and stores a hash only from a completely spooled body, and every        *)
(* cancelled download reaches a terminal state.                            *)
(***************************************************************************)
C22_Safe(r) ==
    LET q == reqs[r]
    IN  /\ q.cancelAt = "resolve" =>
              /\ q.pc \in {"lookup", "resolve", "done"}
              /\ q.pc = "done" => q.fail \in {"parse", "resolve"}
              /\ q.calls.fetch = 0 /\ q.written = 0 /\ q.h1 = <<>> /\ ~q.cached
              /\ r \notin DOMAIN tmp
        /\ q.cancelAt = "fetch" =>
              /\ q.pc \in {"fetch", "done"}
              /\ q.pc = "done" => q.fail \in {"fetch", "request"}
              /\ q.written = 0 /\ q.h1 = <<>> /\ ~q.cached
              /\ r \notin DOMAIN tmp
        /\ q.cancelAt = "copy" =>
              \/ q.pc \in {"createtemp", "copy"}
              \/ q.pc = "done" /\ q.fail \in {"createtemp", "spool"}
                     /\ q.h1 = <<>> /\ ~q.cached
              \/ q.written = Len(OriginBody(q))
        /\ q.cancelAt = "direct" => q.pc \in {"direct", "done"}
        /\ (Cancelled(q) /\ q.pc = "done") => r \notin DOMAIN tmp
        /\ (q.cancelAt \in {"resolve", "fetch", "copy"}
               /\ (q.h1 # <<>> \/ q.cached)) =>
              /\ q.written = Len(OriginBody(q))
              /\ q.h1 = HashZip(OriginBody(q))

C22_Cancellation ==
    /\ [](\A r \in Requests : reqs[r].kind = "download" => C22_Safe(r))
    /\ \A r \in Requests : Cancelled(reqs[r]) ~> (reqs[r].pc = "done")

\* a download cancelled during the spooling copy: ended with the spool
\* failure, the spool file gone, the store without a record
C22_Witness ==
    \E r \in Requests :
        /\ IsDone(r, "download") /\ reqs[r].cancelAt = "copy"
        /\ reqs[r].fail = "spool" /\ reqs[r].resp.status = 502
        /\ r \notin DOMAIN tmp /\ files = <<>>


(***************************************************************************)
(* C23.  listVersions and getVersion fail with UpstreamUnavailable         *)
(* whenever the origin listing call fails at transport level or returns a  *)
(* status that is not a success: for every such answer the step of the     *)
(* request ends it with the gateway status 502 and no document, and no     *)
(* request that has ended with a listing failure carries a success status  *)
(* or a document.                                                          *)
(***************************************************************************)
C23_OriginFailed(ans) == ans.err \/ ans.status \notin 200..299

C23_Step(q, ans) ==
    IF q.kind = "versions" THEN handleVersionsStep(q, ans) ELSE ProviderVersionFind(q, ans)

C23_GatewayError(q) ==
    /\ q.pc = "done" /\ q.fail = "listing"
    /\ q.resp.status = 502 /\ q.resp.json = NoJson /\ ~Success(q)

C23_ListingFailure ==
    \A r \in Requests :
        reqs[r].kind \in {"versions", "version"} =>
            /\ reqs[r].pc = "listing" =>
                  \A ans \in ListingAnswers :
                      C23_OriginFailed(ans) => C23_GatewayError(C23_Step(reqs[r], ans))
            /\ (reqs[r].pc = "done" /\ reqs[r].fail = "listing") => C23_GatewayError(reqs[r])
            /\ (reqs[r].pc = "done" /\ Success(reqs[r])) => reqs[r].fail = ""

\* a listVersions and a getVersion request, one of them ended by a failed
\* listing call with 502 and no document
C23_Witness ==
    \E r, g \in Requests :
        /\ r # g /\ IsDone(r, "versions") /\ reqs[g].kind = "version"
        /\ C23_GatewayError(reqs[r]) /\ reqs[r].calls.listing = 1
        /\ reqs[g].pc \in {"listing", "done"}


(***************************************************************************)
(* C24.  A Hash Store read failure is the same as 'not cached'.  The       *)
(* lookup of a download whose read of the record fails goes on to the      *)
(* resolution with the hash taken as absent, and the download never takes  *)
(* StreamingDirect; a getVersion whose read of the directory or of a       *)
(* record fails goes on, answers 200, and its document has no hashes for   *)
(* the platform of a record it could not read; the step at which the read  *)
(* fails never ends the request with an error.                             *)
(***************************************************************************)
C24_Omitted(q) ==
    \A p \in DOMAIN q.resp.json.archives :
        (keyToPath(q.ns, q.name, q.version, p) \in q.unread
            \/ CacheDir(q.ns, q.name) \in q.unread)
        => "hashes" \notin DOMAIN q.resp.json.archives[p]

C24_ReadStep(q, q2) ==
    /\ q2.fail = ""
    /\ q.kind = "download" =>
          /\ q2.pc = "resolve" /\ ~q2.hasHash /\ q2.seen = <<>>
          /\ q2.resp = q.resp
    /\ q.kind = "version" =>
          \/ /\ q2.pc = "readfiles" /\ q2.resp = q.resp
             /\ \A p \in DOMAIN q2.got :
                    keyToPath(q.ns, q.name, q.version, p) \notin q2.unread
             /\ CacheDir(q.ns, q.name) \in q2.unread => q2.todo = <<>>
          \/ q2.pc = "done" /\ q2.resp.status = 200 /\ C24_Omitted(q2)

C24_ReadFailureIsAbsence ==
    /\ [][\A r \in Requests :
             reqs'[r].unread # reqs[r].unread => C24_ReadStep(reqs[r], reqs'[r])]_vars
    /\ [](\A r \in Requests :
             reqs[r].unread # {} =>
                 /\ reqs[r].kind = "download" => ~reqs[r].hasHash /\ reqs[r].pc # "direct"
                 /\ (IsDone(r, "version") /\ Success(reqs[r])) => C24_Omitted(reqs[r]))

\* a download that could not read the record of its key although the
\* record was there, and has spooled and served the archive
C24_Witness ==
    \E r \in Requests :
        /\ IsDone(r, "download") /\ reqs[r].unread = {KeyPath(reqs[r])}
        /\ KeyPath(reqs[r]) \in DOMAIN files
        /\ Success(reqs[r]) /\ reqs[r].written = Len(OriginBody(reqs[r]))
        /\ reqs[r].calls = [listing |-> 0, resolve |-> 1, fetch |-> 1]


(***************************************************************************)
(* C25.  Provenance of the Hash Store.  In every reachable state every     *)
(* record was written by a download that took StreamingAndHashing (no      *)
(* cached hash seen), spooled the whole body of a 200 answer, and the      *)
(* record's value is the content hash of that archive for the key decoded  *)
(* from the filename; a download that failed and a download that took      *)
(* StreamingDirect have written no record.  A record whose write is in     *)
(* flight (created, not yet written) is left out of the comparison.        *)
(***************************************************************************)
C25_Writer(r, p) ==
    LET q == reqs[r]
    IN  /\ q.kind = "download" /\ q.key.err = "" /\ KeyPath(q) = p
        /\ ~q.hasHash /\ q.calls.fetch = 1
        /\ q.written = Len(OriginBody(q))
        /\ q.h1 = HashZip(OriginBody(q))

C25_InFlight(p) ==
    \E r \in Requests :
        reqs[r].kind = "download" /\ reqs[r].pc = "write" /\ KeyPath(reqs[r]) = p

C25_StoreProvenance ==
    /\ \A p \in DOMAIN files :
          /\ \E r \in Requests : C25_Writer(r, p)
          /\ ~C25_InFlight(p) =>
                 \E r \in Requests : C25_Writer(r, p) /\ files[p] = reqs[r].h1
    /\ \A r \in Requests :
          (IsDone(r, "download") /\ (reqs[r].fail # "" \/ reqs[r].hasHash)) =>
              /\ ~reqs[r].cached
              /\ ~reqs[r].setErr


(***************************************************************************)
(* C26.  A failed Set leaves the store unchanged for the key: after a      *)
(* download whose Set returned an error, and with no other Set on the key  *)
(* in flight, Get for the key reports absence or the complete hash of the  *)
(* archive, never a record a later download would take for a cached hash.  *)
(***************************************************************************)
C26_GetOf(q) == CacheGet(files, q.ns, q.key.name, q.key.version, KeyPlatform(q))

C26_FailedSetLeavesNothing ==
    \A r \in Requests :
        (/\ reqs[r].kind = "download" /\ reqs[r].key.err = ""
         /\ reqs[r].setErr /\ ~C25_InFlight(KeyPath(reqs[r]))) =>
                \/ ~C26_GetOf(reqs[r]).ok
                \/ C26_GetOf(reqs[r]).value = HashZip(OriginBody(reqs[r]))


(***************************************************************************)
(* C27.  Bulk and single lookups agree.  In every reachable state of the   *)
(* store and for every namespace, name and version, every platform that    *)
(* GetAll returns with value h has Get answering (h, present), every key   *)
(* for which Get answers (h, present) is in GetAll with value h, and       *)
(* every platform GetAll returns for a version is a record that a Set      *)
(* with that very version has written.                                     *)
(***************************************************************************)
C27_Agree(k) ==
    LET all == GetAll(files, k.ns, k.name, k.version)
    IN  /\ \A p \in DOMAIN all :
              CacheGet(files, k.ns, k.name, k.version, p) = [value |-> all[p], ok |-> TRUE]
        /\ C13_GetOf(files, k).ok =>
              /\ k.platform \in DOMAIN all
              /\ all[k.platform] = C13_GetOf(files, k).value

C27_OwnVersion(k) ==
    \A p \in DOMAIN GetAll(files, k.ns, k.name, k.version) :
        \E r \in Requests :
            /\ reqs[r].kind = "set" /\ reqs[r].version = k.version
            /\ StorePath(reqs[r]) = keyToPath(k.ns, k.name, k.version, p)

C27_BulkAgreesWithSingle ==
    \A k \in StoreKeys : C27_Agree(k) /\ C27_OwnVersion(k)

====
